---- MODULE Spec2Model ----
(***************************************************************************)
(* Model of emojipedia-scraper/scrape_images.py: download_images().        *)
(*                                                                         *)
(* Strings are sequences of one-character strings, so that the filename    *)
(* derivation (split on "?", os.path.splitext, concatenation, path join)   *)
(* is computed character by character as the code computes it.  The        *)
(* filesystem is a function from file paths to contents (byte sequences).  *)
(***************************************************************************)
EXTENDS Integers, Sequences, FiniteSets

VARIABLES
    catFile,     \* state of JSON_FILE on disk: "ok", "missing" or "invalid"
    catalog,     \* what JSON_FILE parses to when it is "ok" (sequence of <<key, info>> in insertion order)
    dirState,    \* OUTPUT_DIR on disk: "absent", "dir", or "file" (a non-directory is in the way)
    fs,          \* files on disk: path -> content
    fsStart,     \* fs as it was when the current run started
    data,        \* the loaded catalog (local variable data)
    pc,          \* position of the run
    idx,         \* position of the for loop in data.items()
    resp,        \* response.content of the GET in flight
    outcome,     \* per entry: "Pending", "MissingURL", "Skipped", "Downloaded", "Failed"
    gets,        \* per entry: number of requests.get calls issued in the current run
    got,         \* per entry: its GET in the current run: status "none", "ok" or "error", and the body received
    out,         \* the lines printed by the latest step
    run,         \* "first" or "second" invocation of the program
    prevOutcome  \* outcome of every entry at the end of the previous run

vars == <<catFile, catalog, dirState, fs, fsStart, data, pc, idx, resp,
          outcome, gets, got, out, run, prevOutcome>>

-----------------------------------------------------------------------------
(* Bounds of the model *)

MaxEntries == 2      \* longest catalog
MaxPathLen == 3      \* longest generated URL path (characters)

-----------------------------------------------------------------------------
(* Program constants *)

OUTPUT_DIR == <<"e","m","o","j","i","_","i","m","a","g","e","s">>

PNG == <<".","p","n","g">>

None == <<"None">>   \* Python's None: what dict.get returns for an absent field

-----------------------------------------------------------------------------
(* String functions, as Python computes them *)

\* the positions of character c in s
Positions(s, c) == { i \in 1..Len(s) : s[i] = c }

\* first index of character c in s, 0 when absent (str.find, 1-based)
Find(s, c) ==
    LET at == Positions(s, c)
    IN  IF at = {} THEN 0 ELSE CHOOSE i \in at : \A j \in at : i <= j

\* last index of character c in s, 0 when absent (str.rfind, 1-based)
RFind(s, c) ==
    LET at == Positions(s, c)
    IN  IF at = {} THEN 0 ELSE CHOOSE i \in at : \A j \in at : j <= i

\* s.split(c)[0]
SplitHead(s, c) ==
    IF Find(s, c) = 0 THEN s ELSE SubSeq(s, 1, Find(s, c) - 1)

\* os.path.splitext(p): <<root, ext>>; the extension starts at the last dot
\* after the last slash, leading dots of the last component are not an
\* extension.
Splitext(p) ==
    LET sepIndex == RFind(p, "/")
        dotIndex == RFind(p, ".")
    IN  IF /\ dotIndex > sepIndex
           /\ \E k \in (sepIndex+1)..(dotIndex-1) : p[k] # "."
        THEN <<SubSeq(p, 1, dotIndex - 1), SubSeq(p, dotIndex, Len(p))>>
        ELSE <<p, <<>> >>

\* os.path.join(a, b) for a not ending in "/"
PathJoin(a, b) ==
    IF b # <<>> /\ b[1] = "/" THEN b ELSE a \o <<"/">> \o b

-----------------------------------------------------------------------------
(* The loop body's pure parts *)

\* info.get(field, default)
Get(info, field, default) ==
    IF info[field] = None THEN default ELSE info[field]

\* a test for None alone: the empty string is then taken for a URL
NoImageNoneOnly(image_url) == image_url = None

\* `not image_url`
NoImage(image_url) == image_url = None \/ image_url = <<>>

\* ext: the extension of the URL up to its first "?", ".png" when empty
Ext(image_url) ==
    LET ext == Splitext(SplitHead(image_url, "?"))[2]
    IN  IF ext = <<>> THEN PNG ELSE ext

\* filename = f"{key}{ext}"
Filename(key, image_url) == key \o Ext(image_url)

\* filepath = os.path.join(OUTPUT_DIR, filename)
Filepath(key, image_url) == PathJoin(OUTPUT_DIR, Filename(key, image_url))

\* no existence check: every destination is taken to be missing
ExistsNever(files, filepath) == FALSE

\* os.path.exists(filepath)
Exists(files, filepath) == filepath \in DOMAIN files

\* a write that loses the last byte of the body
WrittenTruncated(content) == SubSeq(content, 1, Len(content) - 1)

\* the file written by img_file.write(response.content)
Written(content) == content

\* an iteration that steps over the entry after the current one
AdvanceSkips(i) == i + 2

\* the next position of the for loop
Advance(i) == i + 1

-----------------------------------------------------------------------------
(* Inputs: catalogs, the disk before the first run, the network's answers *)

\* "https://cdn.example.com/img/a.webp?size=72"
UrlWebp == <<"h","t","t","p","s",":","/","/","c","d","n",".","e","x","a","m","p","l","e",
             ".","c","o","m","/","i","m","g","/","a",".","w","e","b","p","?","s","i","z","e",
             "=","7","2">>

\* "https://cdn.example.com/img/a"
UrlPlain == <<"h","t","t","p","s",":","/","/","c","d","n",".","e","x","a","m","p","l","e",
              ".","c","o","m","/","i","m","g","/","a">>

GrinningFace == <<"g","r","i","n","n","i","n","g","_","f","a","c","e">>

\* the keys of a catalog, in insertion order (distinct, as the keys of a JSON object are)
AllKeys == << <<"x">>, <<"x",".","p","n","g">>, <<"y">>, <<"z">> >>

\* the records of a catalog: the image absent, empty, or a URL; the display
\* name absent or present
Infos ==
    { [name |-> <<"n">>, image |-> None],
      [name |-> None,    image |-> <<>>],
      [name |-> <<"n">>, image |-> UrlWebp],
      [name |-> None,    image |-> UrlWebp],
      [name |-> None,    image |-> UrlPlain] }

Min(a, b) == IF a < b THEN a ELSE b

\* catalogs of at most MaxEntries entries
Catalogs ==
    UNION { { [i \in 1..n |-> [key |-> AllKeys[i], info |-> infos[i]]] :
                infos \in [1..n -> Infos] } :
            n \in 0..Min(MaxEntries, Len(AllKeys)) }

\* content of a file that is on disk before the first run
OldContent == <<"o","l","d">>

\* bodies a successful GET can carry
Bodies == { <<"b">>, <<"b","c">> }

\* what requests.get / raise_for_status can raise
NetErrors == {"ConnectionError", "Timeout", "HTTPError"}

\* the destinations of a catalog's entries that have an image URL
Destinations(cat) ==
    { Filepath(cat[i].key, cat[i].info.image) :
        i \in { j \in 1..Len(cat) : ~NoImage(cat[j].info.image) } }

\* a file that may lie in OUTPUT_DIR whatever the catalog
StrayPath == PathJoin(OUTPUT_DIR, <<"s",".","p","n","g">>)

\* the disks the program can start on: files lie in OUTPUT_DIR only when it
\* is a directory
Disks(cat) ==
    { [p \in S |-> OldContent] : S \in SUBSET (Destinations(cat) \cup {StrayPath}) }

InitRest ==
    /\ fsStart = fs
    /\ data = <<>>
    /\ pc = "start"
    /\ idx = 1
    /\ resp = <<>>
    /\ outcome = <<>>
    /\ gets = <<>>
    /\ got = <<>>
    /\ out = <<>>
    /\ run = "first"
    /\ prevOutcome = <<>>

InitWith(catalogs) ==
    /\ catFile \in {"ok", "missing", "invalid"}
    /\ catalog \in (IF catFile = "ok" THEN catalogs ELSE {<<>>})
    /\ dirState \in {"absent", "dir", "file"}
    /\ fs \in (IF dirState = "dir" THEN Disks(catalog) ELSE {<<>>})
    /\ InitRest

Init == InitWith(Catalogs)

-----------------------------------------------------------------------------
(* The run *)

\* the loop variables of the current iteration
key == data[idx].key
info == data[idx].info
name == Get(info, "name", key)
image_url == info.image
filename == Filename(key, image_url)
filepath == Filepath(key, image_url)

InLoop == pc = "loop" /\ idx \in 1..Len(data)

Put(files, path, content) ==
    [p \in DOMAIN files \cup {path} |-> IF p = path THEN content ELSE files[p]]

\* os.makedirs(OUTPUT_DIR, exist_ok=True)
MakeDirs ==
    /\ pc = "start"
    /\ dirState # "file"
    /\ dirState' = "dir"
    /\ pc' = "load"
    /\ UNCHANGED <<catFile, catalog, fs, fsStart, data, idx, resp, outcome, gets,
                   got, out, run, prevOutcome>>

\* os.makedirs raises FileExistsError: a non-directory has the name
MakeDirsFails ==
    /\ pc = "start"
    /\ dirState = "file"
    /\ pc' = "aborted"
    /\ UNCHANGED <<catFile, catalog, dirState, fs, fsStart, data, idx, resp,
                   outcome, gets, got, out, run, prevOutcome>>

\* open(JSON_FILE) and json.load succeed
LoadCatalog ==
    /\ pc = "load"
    /\ catFile = "ok"
    /\ data' = catalog
    /\ idx' = 1
    /\ outcome' = [i \in 1..Len(catalog) |-> "Pending"]
    /\ gets' = [i \in 1..Len(catalog) |-> 0]
    /\ got' = [i \in 1..Len(catalog) |-> [status |-> "none", body |-> <<>>]]
    /\ pc' = "loop"
    /\ UNCHANGED <<catFile, catalog, dirState, fs, fsStart, resp, out, run,
                   prevOutcome>>

\* the load error is swallowed and the run goes on with an empty catalog
LoadCatalogFailsSwallowed ==
    /\ pc = "load"
    /\ catFile # "ok"
    /\ data' = <<>>
    /\ idx' = 1
    /\ pc' = "loop"
    /\ UNCHANGED <<catFile, catalog, dirState, fs, fsStart, resp, outcome, gets,
                   got, out, run, prevOutcome>>

\* open(JSON_FILE) raises FileNotFoundError or json.load raises JSONDecodeError
LoadCatalogFails ==
    /\ pc = "load"
    /\ catFile # "ok"
    /\ pc' = "aborted"
    /\ UNCHANGED <<catFile, catalog, dirState, fs, fsStart, data, idx, resp,
                   outcome, gets, got, out, run, prevOutcome>>

\* if not image_url: print, continue
NoImageStep ==
    /\ InLoop
    /\ NoImage(image_url)
    /\ out' = << [kind |-> "NoImage", name |-> name] >>
    /\ outcome' = [outcome EXCEPT ![idx] = "MissingURL"]
    /\ idx' = Advance(idx)
    /\ UNCHANGED <<catFile, catalog, dirState, fs, fsStart, data, pc, resp, gets,
                   got, run, prevOutcome>>

\* if os.path.exists(filepath): print, continue
SkipStep ==
    /\ InLoop
    /\ ~NoImage(image_url)
    /\ Exists(fs, filepath)
    /\ out' = << [kind |-> "Skipping", filename |-> filename] >>
    /\ outcome' = [outcome EXCEPT ![idx] = "Skipped"]
    /\ idx' = Advance(idx)
    /\ UNCHANGED <<catFile, catalog, dirState, fs, fsStart, data, pc, resp, gets,
                   got, run, prevOutcome>>

\* print Downloading; requests.get(image_url, timeout=10) is issued
IssueGet ==
    /\ InLoop
    /\ ~NoImage(image_url)
    /\ ~Exists(fs, filepath)
    /\ out' = << [kind |-> "Downloading", name |-> name, filename |-> filename] >>
    /\ gets' = [gets EXCEPT ![idx] = @ + 1]
    /\ pc' = "get"
    /\ UNCHANGED <<catFile, catalog, dirState, fs, fsStart, data, idx, resp,
                   outcome, got, run, prevOutcome>>

\* the except clause: print Failed, go on with the next entry
Failed(e) ==
    /\ out' = << [kind |-> "Failed", name |-> name, error |-> e] >>
    /\ outcome' = [outcome EXCEPT ![idx] = "Failed"]
    /\ resp' = <<>>
    /\ idx' = Advance(idx)
    /\ pc' = "loop"

\* no except clause: the error leaves download_images
GetFailsPropagates ==
    /\ pc = "get"
    /\ got' = [got EXCEPT ![idx] = [status |-> "error", body |-> <<>>]]
    /\ pc' = "aborted"
    /\ UNCHANGED <<catFile, catalog, dirState, fs, fsStart, data, idx, resp,
                   outcome, gets, out, run, prevOutcome>>

\* the destination is opened for writing before the GET: a failed GET
\* leaves an empty file
GetFailsLeavesFile ==
    /\ pc = "get"
    /\ \E e \in NetErrors : Failed(e)
    /\ got' = [got EXCEPT ![idx] = [status |-> "error", body |-> <<>>]]
    /\ fs' = Put(fs, filepath, <<>>)
    /\ UNCHANGED <<catFile, catalog, dirState, fsStart, data, gets, run,
                   prevOutcome>>

\* requests.get raises, or raise_for_status raises on a non-success status
GetFails ==
    /\ pc = "get"
    /\ \E e \in NetErrors : Failed(e)
    /\ got' = [got EXCEPT ![idx] = [status |-> "error", body |-> <<>>]]
    /\ UNCHANGED <<catFile, catalog, dirState, fs, fsStart, data, gets, run,
                   prevOutcome>>

\* requests.get returns a success status: response.content is the body
GetOk ==
    /\ pc = "get"
    /\ \E b \in Bodies :
          /\ resp' = b
          /\ got' = [got EXCEPT ![idx] = [status |-> "ok", body |-> b]]
    /\ out' = <<>>
    /\ pc' = "write"
    /\ UNCHANGED <<catFile, catalog, dirState, fs, fsStart, data, idx, outcome,
                   gets, run, prevOutcome>>

\* open(filepath, "wb") raises: nothing is created
OpenFails ==
    /\ pc = "write"
    /\ Failed("OSError")
    /\ UNCHANGED <<catFile, catalog, dirState, fs, fsStart, data, gets, got, run,
                   prevOutcome>>

\* open(filepath, "wb") creates the file, then write (or the flush on close)
\* raises: a proper prefix of the body is on disk
WriteFails ==
    /\ pc = "write"
    /\ \E n \in 0..(Len(resp) - 1) : fs' = Put(fs, filepath, SubSeq(resp, 1, n))
    /\ Failed("OSError")
    /\ UNCHANGED <<catFile, catalog, dirState, fsStart, data, gets, got, run,
                   prevOutcome>>

\* open(filename, "wb"): the file is written outside OUTPUT_DIR, not at the
\* path the existence check looks at
WriteOkWrongPath ==
    /\ pc = "write"
    /\ fs' = Put(fs, filename, Written(resp))
    /\ outcome' = [outcome EXCEPT ![idx] = "Downloaded"]
    /\ resp' = <<>>
    /\ out' = <<>>
    /\ idx' = Advance(idx)
    /\ pc' = "loop"
    /\ UNCHANGED <<catFile, catalog, dirState, fsStart, data, gets, got, run,
                   prevOutcome>>

\* with open(filepath, "wb") as img_file: img_file.write(response.content)
WriteOk ==
    /\ pc = "write"
    /\ fs' = Put(fs, filepath, Written(resp))
    /\ outcome' = [outcome EXCEPT ![idx] = "Downloaded"]
    /\ resp' = <<>>
    /\ out' = <<>>
    /\ idx' = Advance(idx)
    /\ pc' = "loop"
    /\ UNCHANGED <<catFile, catalog, dirState, fsStart, data, gets, got, run,
                   prevOutcome>>

\* data.items() is exhausted: download_images returns
LoopEnd ==
    /\ pc = "loop"
    /\ idx > Len(data)
    /\ pc' = "done"
    /\ out' = <<>>
    /\ UNCHANGED <<catFile, catalog, dirState, fs, fsStart, data, idx, resp,
                   outcome, gets, got, run, prevOutcome>>

\* the program is invoked again, nothing on disk having changed in between
Rerun ==
    /\ pc = "done"
    /\ run = "first"
    /\ run' = "second"
    /\ prevOutcome' = outcome
    /\ fsStart' = fs
    /\ data' = <<>>
    /\ idx' = 1
    /\ outcome' = <<>>
    /\ gets' = <<>>
    /\ got' = <<>>
    /\ out' = <<>>
    /\ pc' = "start"
    /\ UNCHANGED <<catFile, catalog, dirState, fs, resp>>

\* the steps of one invocation of download_images
RunStep ==
    \/ MakeDirs
    \/ MakeDirsFails
    \/ LoadCatalog
    \/ LoadCatalogFails
    \/ NoImageStep
    \/ SkipStep
    \/ IssueGet
    \/ GetFails
    \/ GetOk
    \/ OpenFails
    \/ WriteFails
    \/ WriteOk
    \/ LoopEnd

Next == RunStep \/ Rerun

Spec == Init /\ [][Next]_vars

-----------------------------------------------------------------------------
(* Vocabulary of the properties, stated on the catalog file's content *)

Entries == 1..Len(data)

Loaded == pc \in {"loop", "get", "write", "done"}

\* entry i's image field is absent or empty
ImageMissing(i) == catalog[i].info.image \in {None, <<>>}

\* entry i's destination OUTPUT_DIR/<key><ext>
Dest(i) == Filepath(catalog[i].key, catalog[i].info.image)

\* entry i's display name
DisplayName(i) ==
    IF catalog[i].info.name = None THEN catalog[i].key ELSE catalog[i].info.name

Terminal == {"MissingURL", "Skipped", "Downloaded", "Failed"}

-----------------------------------------------------------------------------
\* C1: an entry with a non-empty image URL whose destination did not exist
\* before the run, whose GET returned a success status and whose write
\* succeeded (it ended Downloaded), has at the end of the run a destination
\* file whose content is exactly the body of that GET.
C1_DownloadedContentIsBody ==
    pc = "done" =>
        \A i \in Entries :
            ( /\ ~ImageMissing(i)
              /\ Dest(i) \notin DOMAIN fsStart
              /\ got[i].status = "ok"
              /\ outcome[i] = "Downloaded" )
            => /\ Dest(i) \in DOMAIN fs
               /\ fs[Dest(i)] = got[i].body

\* a run has ended in which the first of two entries was downloaded with the
\* two-byte body and the second with another body
C1_Witness ==
    /\ pc = "done"
    /\ Len(data) = 2
    /\ outcome[1] = "Downloaded" /\ got[1].body = <<"b","c">>
    /\ outcome[2] = "Downloaded" /\ got[2].body = <<"b">>
    /\ fs[Dest(1)] = <<"b","c">>
    /\ Dest(1) \notin DOMAIN fsStart

\* C2: for an entry whose destination exists before the run, in every state
\* of the run no GET has been issued for it, its outcome is Skipped as soon
\* as the loop has passed it, and the file's content is what it was before
\* the run, whatever happens to the other entries.
C2_ExistingIsSkippedUntouched ==
    Loaded =>
        \A i \in Entries :
            (~ImageMissing(i) /\ Dest(i) \in DOMAIN fsStart)
            => /\ gets[i] = 0
               /\ got[i].status = "none"
               /\ Dest(i) \in DOMAIN fs
               /\ fs[Dest(i)] = fsStart[Dest(i)]
               /\ outcome[i] = (IF i < idx THEN "Skipped" ELSE "Pending")

\* a first run has ended in which an existing destination was skipped while
\* another entry was downloaded and written
C2_Witness ==
    /\ pc = "done"
    /\ run = "first"
    /\ \E i, j \in Entries :
          /\ Dest(i) \in DOMAIN fsStart
          /\ outcome[i] = "Skipped"
          /\ fs[Dest(i)] = OldContent
          /\ outcome[j] = "Downloaded"

\* C3: the step of the loop on an entry whose image field is absent or
\* empty issues no GET, changes no file, prints the no-image line with the
\* entry's display name, gives the entry the outcome MissingURL and moves on
\* to the next entry.
C3_MissingUrlStep ==
    [][ (pc = "loop" /\ idx \in 1..Len(data) /\ ImageMissing(idx))
        => /\ fs' = fs
           /\ gets' = gets
           /\ got' = got
           /\ outcome' = [outcome EXCEPT ![idx] = "MissingURL"]
           /\ out' = << [kind |-> "NoImage", name |-> DisplayName(idx)] >>
           /\ idx' = idx + 1
           /\ pc' = "loop" ]_vars

\* an entry with an empty image string ended MissingURL with no GET and no
\* file, and the entry after it was downloaded
C3_Witness ==
    /\ pc = "done"
    /\ Len(data) = 2
    /\ catalog[1].info.image = <<>>
    /\ outcome[1] = "MissingURL"
    /\ gets[1] = 0
    /\ outcome[2] = "Downloaded"
    /\ DOMAIN fs = {Dest(2)}

\* C10: in every state of a run, every file on disk either was there before
\* the run or is the destination of an entry whose GET returned a success
\* status; an entry whose GET failed has no destination file unless the
\* file was there before the run.
C10_FilesComeFromSuccessfulGets ==
    /\ \A p \in DOMAIN fs :
          \/ p \in DOMAIN fsStart
          \/ \E i \in Entries :
                ~ImageMissing(i) /\ Dest(i) = p /\ got[i].status = "ok"
    /\ \A i \in Entries :
          (got[i].status = "error" /\ Dest(i) \notin DOMAIN fsStart)
          => Dest(i) \notin DOMAIN fs

\* a run has ended in which one entry's GET failed and left no file while
\* another entry's file was created
C10_Witness ==
    /\ pc = "done"
    /\ \E i, j \in Entries :
          /\ got[i].status = "error"
          /\ outcome[i] = "Failed"
          /\ Dest(i) \notin DOMAIN fs
          /\ got[j].status = "ok"
          /\ Dest(j) \in DOMAIN fs
          /\ Dest(j) \notin DOMAIN fsStart

-----------------------------------------------------------------------------
\* a step in which the fetch-or-write of the current entry raises: the run
\* is at the GET or at the write, and the step neither is the GET's success
\* nor ends the entry Downloaded
RaisingStep ==
    /\ pc \in {"get", "write"}
    /\ pc' # "write"
    /\ outcome'[idx] # "Downloaded"

\* C4: a step in which the fetch or the write of the current entry raises
\* gives that entry the outcome Failed, prints the failure line with its
\* display name, changes no other entry's outcome and continues the loop at
\* the next entry (the error does not leave download_images); and a run
\* that has ended has left no entry Pending.
C4_ErrorIsCaughtPerEntry ==
    /\ [][ RaisingStep
           => /\ pc' = "loop"
              /\ idx' = idx + 1
              /\ outcome' = [outcome EXCEPT ![idx] = "Failed"]
              /\ Len(out') = 1
              /\ out'[1].kind = "Failed"
              /\ out'[1].name = DisplayName(idx) ]_vars
    /\ [](pc = "done" => \A i \in Entries : outcome[i] \in Terminal)
    /\ [](pc = "aborted" => data = <<>>)

\* a run has ended in which the first entry Failed on its GET and the
\* second entry was downloaded and written
C4_Witness ==
    /\ pc = "done"
    /\ Len(data) = 2
    /\ outcome[1] = "Failed" /\ got[1].status = "error"
    /\ outcome[2] = "Downloaded"
    /\ Dest(2) \in DOMAIN fs

\* C5 as claimed: at the end of the second of two runs no GET has been
\* issued for any entry and no entry Failed (every entry was passed over,
\* as Skipped or for want of a URL), whatever the network did in the first
\* run.
C5_SecondRunNeverDownloads ==
    (run = "second" /\ pc = "done")
    => \A i \in Entries :
          gets[i] = 0 /\ outcome[i] \in {"Skipped", "MissingURL"}

\* C5 amended: when no entry ended Failed in the first run, the second run
\* issues no GET and writes nothing in any of its states, and at its end
\* every entry with an image URL is Skipped and every entry without one is
\* MissingURL.
C5_SecondRunAfterCleanFirstRun ==
    (run = "second" /\ Loaded /\ \A i \in Entries : prevOutcome[i] # "Failed")
    => /\ fs = fsStart
       /\ pc \in {"loop", "done"}
       /\ \A i \in Entries :
             /\ gets[i] = 0
             /\ got[i].status = "none"
             /\ outcome[i] \in {"Pending", "Skipped", "MissingURL"}
             /\ pc = "done" =>
                   outcome[i] = (IF ImageMissing(i) THEN "MissingURL" ELSE "Skipped")

\* a second run has ended after a first run that downloaded one entry,
\* skipped another and failed none
C5_Witness ==
    /\ run = "second"
    /\ pc = "done"
    /\ Len(data) = 2
    /\ \E i, j \in Entries :
          prevOutcome[i] = "Downloaded" /\ prevOutcome[j] = "Skipped"
    /\ \A i \in Entries : outcome[i] = "Skipped" /\ gets[i] = 0

\* C7: when the catalog file is missing or invalid, the run never gets past
\* the load: the step at the load aborts it, no GET is ever issued, no
\* file is written, and the only change to the output directory is that it
\* may have been created.
C7_BadCatalogAborts ==
    /\ [](catFile # "ok"
          => /\ pc \in {"start", "load", "aborted"}
             /\ data = <<>>
             /\ gets = <<>>
             /\ fs = fsStart)
    /\ [][ catFile # "ok"
           => /\ fs' = fs
              /\ \/ dirState' = dirState
                 \/ dirState = "absent" /\ dirState' = "dir"
              /\ pc = "load" => pc' \in {"load", "aborted"} ]_vars

\* a run on an invalid catalog has aborted after creating the output
\* directory
C7_Witness ==
    /\ catFile = "invalid"
    /\ pc = "aborted"
    /\ dirState = "dir"
    /\ fs = <<>>

\* C8, safety: once the catalog is loaded the loop position only moves from
\* an entry to the next one; the entries before it have a terminal outcome,
\* the entry at it and those after it are Pending, nothing has been done
\* for the entries after it, no entry has more than one GET, a terminal
\* outcome never changes within a run, and at the end of the run the
\* position is past the last entry.
C8_Safety ==
    Loaded =>
        /\ idx \in 1..(Len(data) + 1)
        /\ pc \in {"get", "write"} => idx <= Len(data) /\ gets[idx] = 1
        /\ pc = "done" => idx = Len(data) + 1
        /\ \A i \in Entries :
              /\ gets[i] <= 1
              /\ i < idx => outcome[i] \in Terminal
              /\ i >= idx => outcome[i] = "Pending"
              /\ i > idx => gets[i] = 0 /\ got[i].status = "none"
              /\ (pc = "loop" /\ i = idx) => gets[i] = 0

\* what is left of a run: the entries not yet finished, then the steps left
\* on the current one
Remaining ==
    3 * (Len(data) + 1 - idx)
      + (CASE pc = "loop" -> 2 [] pc = "get" -> 1 [] OTHER -> 0)

C8_Steps ==
    (Loaded /\ run' = run)
    => /\ idx' \in {idx, idx + 1}
       /\ idx' = idx + 1 => pc \in {"loop", "get", "write"} /\ pc' = "loop"
       /\ \A i \in Entries : outcome[i] \in Terminal => outcome'[i] = outcome[i]
       /\ \A i \in Entries : gets'[i] >= gets[i]
       /\ Remaining' < Remaining

\* C8: the safety part above in every state and step; and the run ends with
\* no entry Pending: every step after the load brings the end of the run
\* nearer (Remaining decreases), and the loop position is always an entry
\* or the end of the catalog, where the run is over.
C8_EachEntryOnceInOrder ==
    /\ []C8_Safety
    /\ [][C8_Steps]_vars

\* a run over two entries has ended, one GET issued for each
C8_Witness ==
    /\ pc = "done"
    /\ Len(data) = 2
    /\ idx = 3
    /\ gets[1] = 1 /\ gets[2] = 1
    /\ outcome[1] = "Failed" /\ outcome[2] = "Downloaded"

\* C9 as claimed: in a re-run, a GET is issued for an entry exactly when the
\* entry ended Failed in the previous run, and an entry that ended
\* Downloaded or Skipped is Skipped.
C9_RerunRetriesExactlyTheFailed ==
    (run = "second" /\ pc = "done")
    => \A i \in Entries :
          /\ gets[i] >= 1 <=> prevOutcome[i] = "Failed"
          /\ prevOutcome[i] \in {"Downloaded", "Skipped"} => outcome[i] = "Skipped"

-----------------------------------------------------------------------------
(* Filename derivation on generated URLs: one-entry catalogs whose image   *)
(* URL is put together from a scheme and host, a path, a query and a       *)
(* fragment, each possibly empty.                                          *)

\* "https://cdn.example.com"
UrlHostOnly == <<"h","t","t","p","s",":","/","/","c","d","n",".","e","x","a","m","p","l","e",
                 ".","c","o","m">>

\* "https://cdn.example.com/img/a.webp#top"
UrlFragment == <<"h","t","t","p","s",":","/","/","c","d","n",".","e","x","a","m","p","l","e",
                 ".","c","o","m","/","i","m","g","/","a",".","w","e","b","p","#","t","o","p">>

\* all sequences over alphabet of length at most n
RECURSIVE SeqsUpTo(_, _)
SeqsUpTo(alphabet, n) ==
    IF n = 0 THEN { <<>> }
    ELSE LET shorter == SeqsUpTo(alphabet, n - 1)
         IN  shorter \cup { Append(t, a) : t \in shorter, a \in alphabet }

\* scheme and authority; empty for a relative URL
Origins == { <<>>, <<"s",":","/","/","h">>, <<"s",":","/","/","h",".","c">> }

\* paths of at most MaxPathLen characters
Paths == SeqsUpTo({"a", ".", "/"}, MaxPathLen)

Queries == { <<>>, <<"?","v","=","1",".","2">> }

Fragments == { <<>>, <<"#","f">>, <<"#","f",".","g">> }

\* after an authority the path is empty or starts with "/"; a relative URL
\* has a path
PathsAfter(origin) ==
    { t \in Paths : IF origin = <<>> THEN t # <<>> ELSE (t = <<>> \/ t[1] = "/") }

GeneratedUrls ==
    UNION { { o \o p \o q \o f :
                p \in PathsAfter(o), q \in Queries, f \in Fragments } :
            o \in Origins } \ { <<>> }

DeriveUrls == GeneratedUrls \cup {UrlWebp, UrlPlain, UrlHostOnly, UrlFragment}

DeriveCatalogs ==
    { << [key |-> k, info |-> [name |-> None, image |-> u]] >> :
        k \in { <<"x">>, GrinningFace }, u \in DeriveUrls \cup {None} }

InitDerive == InitWith(DeriveCatalogs)

SpecDerive == InitDerive /\ [][Next]_vars

\* the path component of a URL (RFC 3986): what lies before the first "#"
\* and the first "?", and after the scheme and the authority if there are
\* any
UrlPath(url) ==
    LET main  == SplitHead(SplitHead(url, "#"), "?")
        colon == Find(main, ":")
        slash == Find(main, "/")
        hasAuthority ==
            /\ colon > 0
            /\ slash = colon + 1
            /\ Len(main) >= colon + 2
            /\ main[colon + 2] = "/"
        rest == SubSeq(main, colon + 3, Len(main))
    IN  IF hasAuthority
        THEN (IF Find(rest, "/") = 0 THEN <<>>
              ELSE SubSeq(rest, Find(rest, "/"), Len(rest)))
        ELSE main

\* the extension of the URL's path component, ".png" when it has none
PathExt(url) ==
    IF Splitext(UrlPath(url))[2] = <<>> THEN PNG ELSE Splitext(UrlPath(url))[2]

\* the filename the derivation is specified to give for entry i
PathExtFilename(i) == catalog[i].key \o PathExt(catalog[i].info.image)

\* C6 as claimed: the filename computed for an entry (printed in its
\* Downloading or Skipping line, and the name of the file a download
\* writes in OUTPUT_DIR) is the key followed by the extension of the URL's
\* path component, ".png" when that path has no extension, for every key
\* and every URL.
C6_FilenameIsKeyPlusPathExt ==
    /\ pc = "get" => out[1].filename = PathExtFilename(idx)
    /\ (Len(out) = 1 /\ out[1].kind = "Skipping")
          => out[1].filename = PathExtFilename(idx - 1)
    /\ (pc = "done" /\ run = "first")
          => \A i \in Entries :
                outcome[i] = "Downloaded"
                => PathJoin(OUTPUT_DIR, PathExtFilename(i)) \in DOMAIN fs

====
